---- MODULE Spec2Model ----
(***************************************************************************)
(* Model of telweaver's scraper (src/src/scrape_telegram.py) and of the    *)
(* file naming of its code generator (src/src/parse_to_code.py).           *)
(*                                                                         *)
(* Python strings are sequences of one-character strings, so that          *)
(* str.lower, str.replace, str.count, str.startswith, the "in" operator    *)
(* and the regular expressions are computed character by character.        *)
(* Python's None is the model value None.                                  *)
(***************************************************************************)
EXTENDS Integers, Sequences, FiniteSets, TLC

VARIABLES
    pc,                 \* "call" before the operation under study ran, "done" after
    type_description,   \* argument of convert_array_to_list / convert_or_to_union
    converted_desc,     \* their return value
    string,             \* argument of to_snake_case (title + ".py")
    file_name,          \* its return value
    theads,             \* header cells of one table (Argument specification)
    tds,                \* cells of one body row   (Argument specification)
    argument,           \* result of Argument(**arg_info)
    content,            \* the parsed document handed to parse_page
    outcome             \* what parse_page did: a return value or an exception

vars == <<pc, type_description, converted_desc, string, file_name,
          theads, tds, argument, content, outcome>>

None == "None"

-----------------------------------------------------------------------------
(* Python str primitives *)

UpperChars == <<"A","B","C","D","E","F","G","H","I","J","K","L","M",
                "N","O","P","Q","R","S","T","U","V","W","X","Y","Z">>

LowerChars == <<"a","b","c","d","e","f","g","h","i","j","k","l","m",
                "n","o","p","q","r","s","t","u","v","w","x","y","z">>

Digits == {"0","1","2","3","4","5","6","7","8","9"}

IsUpper(c) == \E i \in 1..Len(UpperChars) : UpperChars[i] = c

IsLower(c) == \E i \in 1..Len(LowerChars) : LowerChars[i] = c

\* one character of str.lower()
LowerChar(c) ==
    IF IsUpper(c)
    THEN LowerChars[CHOOSE i \in 1..Len(UpperChars) : UpperChars[i] = c]
    ELSE c

\* one character of str.upper()
UpperChar(c) ==
    IF IsLower(c)
    THEN UpperChars[CHOOSE i \in 1..Len(LowerChars) : LowerChars[i] = c]
    ELSE c

\* str.lower()
Lower(s) == [i \in 1..Len(s) |-> LowerChar(s[i])]

\* str.upper()
Upper(s) == [i \in 1..Len(s) |-> UpperChar(s[i])]

\* str.title() of an all-lowercase word: first letter upper-cased
Title(s) == [i \in 1..Len(s) |-> IF i = 1 THEN UpperChar(s[i]) ELSE s[i]]

\* s[i:] for a 1-based i
From(s, i) == SubSeq(s, i, Len(s))

\* s.startswith(p, i-1) for a 1-based i
StartsWithAt(s, p, i) ==
    /\ i + Len(p) - 1 <= Len(s)
    /\ \A k \in 1..Len(p) : s[i + k - 1] = p[k]

\* s.startswith(p)
StartsWith(s, p) == StartsWithAt(s, p, 1)

\* p in s
Contains(s, p) == \E i \in 1..(Len(s) + 1) : StartsWithAt(s, p, i)

\* s.replace(old, new) for a non-empty old: left to right, non-overlapping
RECURSIVE ReplaceFrom(_, _, _, _)
ReplaceFrom(s, old, new, i) ==
    IF i > Len(s) THEN <<>>
    ELSE IF StartsWithAt(s, old, i)
         THEN new \o ReplaceFrom(s, old, new, i + Len(old))
         ELSE <<s[i]>> \o ReplaceFrom(s, old, new, i + 1)

Replace(s, old, new) == ReplaceFrom(s, old, new, 1)

\* s.count(p) for a non-empty p: non-overlapping occurrences
RECURSIVE CountFrom(_, _, _)
CountFrom(s, p, i) ==
    IF i > Len(s) THEN 0
    ELSE IF StartsWithAt(s, p, i)
         THEN 1 + CountFrom(s, p, i + Len(p))
         ELSE CountFrom(s, p, i + 1)

Count(s, p) == CountFrom(s, p, 1)

\* c * n
RECURSIVE Repeat(_, _)
Repeat(c, n) == IF n <= 0 THEN <<>> ELSE c \o Repeat(c, n - 1)

\* "".join(parts)
RECURSIVE Flatten(_)
Flatten(parts) ==
    IF parts = <<>> THEN <<>> ELSE Head(parts) \o Flatten(Tail(parts))

\* all sequences over S of length at most n
SeqsUpTo(S, n) == UNION {[1..k -> S] : k \in 0..n}

-----------------------------------------------------------------------------
(* Type normalizer: convert_array_to_list *)

S_ArrayOf == <<"A","r","r","a","y"," ","o","f"," ">>

S_ListOpen == <<"l","i","s","t","[">>

S_Close == <<"]">>

\* convert_array_to_list with the closing brackets counted per replacement
convert_array_to_list_per_site(desc) ==
    Replace(desc, S_ArrayOf, S_ListOpen)
        \o Repeat(S_Close, Count(desc, S_ArrayOf))

convert_array_to_list(desc) ==
    LET converted == Replace(desc, S_ArrayOf, S_ListOpen)
        num_lists == Count(converted, S_ListOpen)
    IN  converted \o Repeat(S_Close, num_lists)

-----------------------------------------------------------------------------
(* Type normalizer: convert_or_to_union *)

\* \w of Python's re, on the characters the model uses
IsWord(c) == IsUpper(c) \/ IsLower(c) \/ c \in Digits \/ c = "_"

S_Or == <<" ","o","r"," ">>

S_UnionOpen == <<"U","n","i","o","n","[">>

S_CommaSpace == <<","," ">>

\* end (exclusive) of the maximal run of word characters starting at i
RECURSIVE WordEnd(_, _)
WordEnd(s, i) ==
    IF i <= Len(s) /\ IsWord(s[i]) THEN WordEnd(s, i + 1) ELSE i

\* Whether (\w+) or (\w+) matches at position i. \w+ is greedy and the
\* character after group 1 is a space, so group 1 is the maximal run.
MatchAt(s, i) ==
    /\ i <= Len(s)
    /\ IsWord(s[i])
    /\ LET j == WordEnd(s, i)
       IN  /\ StartsWithAt(s, S_Or, j)
           /\ j + 4 <= Len(s)
           /\ IsWord(s[j + 4])

\* start of the leftmost match at or after i, 0 when there is none
RECURSIVE SearchFrom(_, _)
SearchFrom(s, i) ==
    IF i > Len(s) THEN 0
    ELSE IF MatchAt(s, i) THEN i
    ELSE SearchFrom(s, i + 1)

\* re.search(pattern, s) is not None
re_search(s) == SearchFrom(s, 1) # 0

\* replace_with_union(match) for the match starting at i
replace_with_union(s, i) ==
    LET j == WordEnd(s, i)
        k == WordEnd(s, j + 4)
        before_or == SubSeq(s, i, j - 1)
        after_or == SubSeq(s, j + 4, k - 1)
    IN  S_UnionOpen \o before_or \o S_CommaSpace \o after_or \o S_Close

\* end (exclusive) of the match starting at i
MatchEnd(s, i) == WordEnd(s, WordEnd(s, i) + 4)

\* re.sub(pattern, replace_with_union, s, count): count = 0 replaces every
\* non-overlapping match, scanning from position i
RECURSIVE re_sub(_, _, _, _)
re_sub(s, i, count, done) ==
    LET m == SearchFrom(s, i)
    IN  IF m = 0 \/ (count # 0 /\ done >= count)
        THEN From(s, i)
        ELSE SubSeq(s, i, m - 1) \o replace_with_union(s, m)
                 \o re_sub(s, MatchEnd(s, m), count, done + 1)

\* convert_or_to_union with re.sub(..., count=1)
convert_or_to_union_first_only(desc) ==
    IF ~re_search(desc) THEN desc ELSE re_sub(desc, 1, 1, 0)

convert_or_to_union(desc) ==
    IF ~re_search(desc) THEN desc ELSE re_sub(desc, 1, 0, 0)

-----------------------------------------------------------------------------
(* Idle values of the variables a specification does not use *)

IdleNormalizer == type_description = <<>> /\ converted_desc = None

IdleSnake == string = <<>> /\ file_name = None

IdleArgument == theads = <<>> /\ tds = <<>> /\ argument = None

IdlePage == content = <<>> /\ outcome = None

-----------------------------------------------------------------------------
(* Specification of convert_array_to_list *)

MaxArrayTokens == 4

ArrayTokens == {S_ArrayOf, S_ListOpen, <<"X">>, S_Close}

ArrayInputs == {Flatten(t) : t \in SeqsUpTo(ArrayTokens, MaxArrayTokens)}

InitArray ==
    /\ pc = "call"
    /\ type_description \in ArrayInputs
    /\ converted_desc = None
    /\ IdleSnake /\ IdleArgument /\ IdlePage

ConvertArrayToList ==
    /\ pc = "call"
    /\ converted_desc' = convert_array_to_list(type_description)
    /\ pc' = "done"
    /\ UNCHANGED <<type_description, string, file_name, theads, tds,
                   argument, content, outcome>>

SpecArray == InitArray /\ [][ConvertArrayToList]_vars

-----------------------------------------------------------------------------
(* Specification of convert_or_to_union *)

MaxUnionTokens == 7

UnionTokens == {<<"A">>, <<"B">>, S_Or, <<",">>}

UnionInputs == {Flatten(t) : t \in SeqsUpTo(UnionTokens, MaxUnionTokens)}

InitUnion ==
    /\ pc = "call"
    /\ type_description \in UnionInputs
    /\ converted_desc = None
    /\ IdleSnake /\ IdleArgument /\ IdlePage

ConvertOrToUnion ==
    /\ pc = "call"
    /\ converted_desc' = convert_or_to_union(type_description)
    /\ pc' = "done"
    /\ UNCHANGED <<type_description, string, file_name, theads, tds,
                   argument, content, outcome>>

SpecUnion == InitUnion /\ [][ConvertOrToUnion]_vars

-----------------------------------------------------------------------------
(* Claims about convert_array_to_list (SpecArray) *)

\* C5: for every input string the result is the input with each "Array of "
\* replaced by "list[", followed by exactly one "]" per replacement
\* performed (none when the input holds no "Array of ").
C5_OneClosingPerReplacement ==
    pc = "done" =>
        converted_desc = convert_array_to_list_per_site(type_description)

-----------------------------------------------------------------------------
(* Claims about convert_or_to_union (SpecUnion) *)

\* The result with every Union[w1, w2] written back as "w1 or w2". The inputs
\* of SpecUnion hold no "U", so every "Union[" of a result is a rewritten site.
RECURSIVE UnUnion(_, _)
UnUnion(s, i) ==
    IF i > Len(s) THEN <<>>
    ELSE IF StartsWithAt(s, S_UnionOpen, i)
         THEN LET a == i + Len(S_UnionOpen)
                  b == WordEnd(s, a)
                  c == b + Len(S_CommaSpace)
                  d == WordEnd(s, c)
              IN  SubSeq(s, a, b - 1) \o S_Or \o SubSeq(s, c, d - 1)
                      \o UnUnion(s, d + 1)
         ELSE <<s[i]>> \o UnUnion(s, i + 1)

\* C4 (as claimed): only the first match is rewritten, every later
\* "<word> or <word>" pair is left as it is.
C4_OnlyFirstMatchRewritten ==
    pc = "done" =>
        converted_desc = convert_or_to_union_first_only(type_description)

\* C4 (amended): every match of a left-to-right non-overlapping scan is
\* rewritten to Union[w1, w2]: the text up to the first match is kept and
\* followed by "Union[", writing each Union[w1, w2] back as "w1 or w2" gives
\* the input (all other characters are unchanged), no match of the pattern
\* is left in the result, and an input without a match is returned unchanged.
C4_EveryNonOverlappingMatchRewritten ==
    pc = "done" =>
        LET m == SearchFrom(type_description, 1)
        IN  /\ UnUnion(converted_desc, 1) = type_description
            /\ ~re_search(converted_desc)
            /\ m = 0 => converted_desc = type_description
            /\ m # 0 =>
                 /\ SubSeq(converted_desc, 1, m - 1)
                        = SubSeq(type_description, 1, m - 1)
                 /\ StartsWithAt(converted_desc, S_UnionOpen, m)

\* C4 witness: "A or B,A or B" gives "Union[A, B],Union[A, B]", two sites
\* in one call
C4_TwoSitesRewritten ==
    /\ pc = "done"
    /\ type_description
         = <<"A"," ","o","r"," ","B",",","A"," ","o","r"," ","B">>
    /\ converted_desc
         = <<"U","n","i","o","n","[","A",","," ","B","]",",",
             "U","n","i","o","n","[","A",","," ","B","]">>

-----------------------------------------------------------------------------
(* File naming: to_snake_case, called by populate_template *)

S_DotPy == <<".","p","y">>

S_Underscore == <<"_">>

\* [i for i, c in enumerate(string) if c in ascii_uppercase], 1-based
RECURSIVE UpperIndices(_, _)
UpperIndices(s, i) ==
    IF i > Len(s) THEN <<>>
    ELSE IF IsUpper(s[i]) THEN <<i>> \o UpperIndices(s, i + 1)
    ELSE UpperIndices(s, i + 1)

\* the loop "for i in reversed(upper_case_letters)", k counting down
RECURSIVE InsertUnderscores(_, _, _)
InsertUnderscores(s, idx, k) ==
    IF k = 0 THEN s
    ELSE LET i == idx[k]
         IN  IF i = 1
             THEN InsertUnderscores(s, idx, k - 1)
             ELSE InsertUnderscores(
                      SubSeq(s, 1, i - 1) \o S_Underscore \o From(s, i),
                      idx, k - 1)

to_snake_case(s) ==
    LET upper_case_letters == UpperIndices(s, 1)
        lowered == Lower(s)
    IN  IF Len(upper_case_letters) <= 1
        THEN lowered
        ELSE InsertUnderscores(lowered, upper_case_letters,
                               Len(upper_case_letters))

MaxTitleLen == 4

TitleChars == {"s", "e", "M", "T"}

InitSnake ==
    /\ pc = "call"
    /\ \E title \in SeqsUpTo(TitleChars, MaxTitleLen) :
           string = title \o S_DotPy
    /\ file_name = None
    /\ IdleNormalizer /\ IdleArgument /\ IdlePage

\* file_name = to_snake_case(api_info.title + ".py")
ToSnakeCase ==
    /\ pc = "call"
    /\ file_name' = to_snake_case(string)
    /\ pc' = "done"
    /\ UNCHANGED <<type_description, converted_desc, string, theads, tds,
                   argument, content, outcome>>

SpecSnake == InitSnake /\ [][ToSnakeCase]_vars

\* every interior uppercase letter stands between two lowercase letters, so
\* each one starts a new word and is followed by a lowercase letter
CleanWordStarts(s) ==
    \A i \in 1..Len(s) :
        IsUpper(s[i]) /\ i > 1 =>
            /\ IsLower(s[i - 1])
            /\ i < Len(s)
            /\ IsLower(s[i + 1])

\* lower-cased, with "_" before every interior uppercase letter
RECURSIVE SeparatedLower(_, _)
SeparatedLower(s, i) ==
    IF i > Len(s) THEN <<>>
    ELSE (IF IsUpper(s[i]) /\ i > 1 THEN S_Underscore ELSE <<>>)
             \o <<LowerChar(s[i])>> \o SeparatedLower(s, i + 1)

\* C10: the file name is the lower-cased title with "_" before every
\* interior uppercase letter that starts a new word, whatever the number of
\* uppercase letters of the title (stated on the titles whose interior
\* uppercase letters all stand between lowercase letters).
C10_SeparatorBeforeEveryInteriorWord ==
    pc = "done" /\ CleanWordStarts(string) =>
        file_name = SeparatedLower(string, 1)

-----------------------------------------------------------------------------
(* Python values held by the fields of an Argument *)

PyNone == [t |-> "None"]

Str(s) == [t |-> "str", s |-> s]

Bool(b) == [t |-> "bool", b |-> b]

IsStr(v) == v.t = "str"

\* Python truthiness of an Optional[str]
Truthy(v) == IsStr(v) /\ v.s # <<>>

-----------------------------------------------------------------------------
(* Argument: the type normalizer applied by validate_argument_type *)

\* If True, fields not specified to be optional or required default to required
NONE_CONSIDERED_REQUIRED == TRUE

\* ARGUMENT_TYPE_MAPPING.items(), in insertion order
ARGUMENT_TYPE_MAPPING ==
    << <<<<"i","n","t","e","g","e","r">>, <<"i","n","t">>>>,
       <<<<"s","t","r","i","n","g">>, <<"s","t","r">>>>,
       <<<<"f","l","o","a","t">>, <<"f","l","o","a","t">>>>,
       <<<<"b","o","o","l","e","a","n">>, <<"b","o","o","l">>>>,
       <<<<"t","r","u","e">>, <<"b","o","o","l">>>>,
       <<<<"f","a","l","s","e">>, <<"b","o","o","l">>>> >>

ARGUMENT_TYPE_BUILTINS ==
    {<<"l","i","s","t">>, <<"i","n","t">>, <<"s","t","r">>, <<"f","l","o","a","t">>, <<"b","o","o","l">>, <<"t","r","u","e">>, <<"f","a","l","s","e">>}

\* the loop over ARGUMENT_TYPE_MAPPING.items(), from entry k on
RECURSIVE ApplyMapping(_, _)
ApplyMapping(v, k) ==
    IF k > Len(ARGUMENT_TYPE_MAPPING) THEN v
    ELSE LET key == ARGUMENT_TYPE_MAPPING[k][1]
             value == ARGUMENT_TYPE_MAPPING[k][2]
             v1 == Replace(v, key, value)
             v2 == Replace(v1, Title(key), value)
             v3 == Replace(v2, Upper(key), value)
         IN  ApplyMapping(v3, k + 1)

\* validate_argument_type on a str (a non-str is returned as it is)
validate_argument_type(v) ==
    convert_or_to_union(convert_array_to_list(ApplyMapping(v, 1)))

-----------------------------------------------------------------------------
(* Argument: field validators. data is info.data, the fields validated so   *)
(* far, a record of the six fields with PyNone for a field not yet set.     *)

S_optional == <<"o","p","t","i","o","n","a","l">>

S_yes == <<"y","e","s">>

S_from == <<"f","r","o","m">>

S_user == <<"u","s","e","r">>

\* validate_required that ignores the description when the cell is absent
validate_required_no_description(v, data) ==
    IF v = PyNone THEN Bool(NONE_CONSIDERED_REQUIRED)
    ELSE IF Lower(v.s) = S_optional THEN Bool(FALSE)
    ELSE IF Lower(v.s) = S_yes THEN Bool(TRUE)
    ELSE v

\* validate_required (mode="before", validate_default=True): v is the raw
\* cell or None; the result still passes the Optional[bool] validation
validate_required(v, data) ==
    IF v = PyNone
    THEN LET description == data.description
         IN  IF Truthy(description)
                  /\ StartsWith(Lower(description.s), S_optional)
             THEN Bool(FALSE)
             ELSE Bool(NONE_CONSIDERED_REQUIRED)
    ELSE IF Lower(v.s) = S_optional THEN Bool(FALSE)
    ELSE IF Lower(v.s) = S_yes THEN Bool(TRUE)
    ELSE v

\* handle_optional_description (mode="before"): the data after the call;
\* the value itself is returned unchanged
handle_optional_description(v, data) ==
    IF v # PyNone /\ StartsWith(Lower(v.s), S_optional)
    THEN [data EXCEPT !.required = Bool(FALSE)]
    ELSE data

\* validate_builtin (mode="after", validate_default=True): v is a bool
validate_builtin(v, data) ==
    LET argument_type == data.argument_type
    IN  IF Truthy(argument_type)
             /\ Lower(argument_type.s) \in ARGUMENT_TYPE_BUILTINS
        THEN Bool(TRUE)
        ELSE v

\* validate_name comparing the name with "from" case-sensitively
validate_name_case_sensitive(v, data) ==
    IF ~Truthy(v) THEN PyNone
    ELSE IF v.s = S_from
         THEN IF Truthy(data.argument_type)
                   /\ Contains(Lower(data.argument_type.s), S_user)
              THEN Str(v.s \o S_Underscore \o S_user)
              ELSE Str(v.s \o S_Underscore)
         ELSE v

\* validate_name (mode="after"): v is a str
validate_name(v, data) ==
    IF ~Truthy(v) THEN PyNone
    ELSE IF Lower(v.s) = S_from
         THEN LET suffix ==
                      IF Truthy(data.argument_type)
                           /\ Contains(Lower(data.argument_type.s), S_user)
                      THEN S_Underscore \o S_user
                      ELSE S_Underscore
              IN  Str(v.s \o suffix)
         ELSE v

-----------------------------------------------------------------------------
(* Argument: construction. The fields are validated in declaration order,   *)
(* each validated value is stored in data under the field's name.          *)

BoolTrueWords == {<<"1">>, <<"o","n">>, <<"t">>, <<"t","r","u","e">>, <<"y">>, <<"y","e","s">>}

BoolFalseWords == {<<"0">>, <<"o","f","f">>, <<"f">>, <<"f","a","l","s","e">>, <<"n">>, <<"n","o">>}

\* whether v passes the validation of a field annotated Optional[bool] / bool
BoolValid(v) ==
    \/ v.t = "bool"
    \/ v = PyNone
    \/ IsStr(v) /\ Lower(v.s) \in BoolTrueWords \cup BoolFalseWords

\* the value a valid v is stored as
BoolValue(v) ==
    IF IsStr(v) THEN Bool(Lower(v.s) \in BoolTrueWords) ELSE v

K_argument_meta == <<"a","r","g","u","m","e","n","t","_","m","e","t","a">>

K_argument_type == <<"a","r","g","u","m","e","n","t","_","t","y","p","e">>

K_name == <<"n","a","m","e">>

K_description == <<"d","e","s","c","r","i","p","t","i","o","n">>

K_required == <<"r","e","q","u","i","r","e","d">>

K_builtin == <<"b","u","i","l","t","i","n">>

K_parameter == <<"p","a","r","a","m","e","t","e","r">>

K_field == <<"f","i","e","l","d">>

K_type == <<"t","y","p","e">>

\* kwargs.get(key): the raw value as a Python value
Get(arg_info, key) ==
    IF key \in DOMAIN arg_info THEN Str(arg_info[key]) ELSE PyNone

ValidationError == [t |-> "ValidationError"]

\* info.data before any field is validated, and no validation error yet
NoFields ==
    [data |-> [argument_meta |-> PyNone, argument_type |-> PyNone,
               name |-> PyNone, description |-> PyNone,
               required |-> PyNone, builtin |-> PyNone],
     ok |-> TRUE]

\* argument_meta: Optional[Literal["parameter", "field"]]
MetaField(raw, st) ==
    IF raw = PyNone \/ raw.s \in {K_parameter, K_field}
    THEN [st EXCEPT !.data.argument_meta = raw]
    ELSE [st EXCEPT !.ok = FALSE]

\* argument_type: Optional[str], validate_argument_type before
TypeField(raw, st) ==
    IF raw = PyNone THEN st
    ELSE [st EXCEPT !.data.argument_type = Str(validate_argument_type(raw.s))]

\* name: Optional[str], validate_name after
NameField(raw, st) ==
    IF raw = PyNone THEN st
    ELSE [st EXCEPT !.data.name = validate_name(raw, st.data)]

\* description: Optional[str], handle_optional_description before; the
\* validated description is stored after the validator has run
DescriptionField(raw, st) ==
    IF raw = PyNone THEN st
    ELSE [st EXCEPT !.data =
              [handle_optional_description(raw, st.data)
                   EXCEPT !.description = raw]]

\* the value validate_required returned goes through Optional[bool] and is
\* stored as data["required"], replacing what was there
StoreRequired(v, st) ==
    IF BoolValid(v) THEN [st EXCEPT !.data.required = BoolValue(v)]
    ELSE [st EXCEPT !.ok = FALSE]

\* required: Optional[bool], validate_default, validate_required before
RequiredField(raw, st) == StoreRequired(validate_required(raw, st.data), st)

\* builtin: bool = False, validate_default, validate_builtin after
BuiltinField(raw, st) ==
    IF raw = PyNone
    THEN [st EXCEPT !.data.builtin = validate_builtin(Bool(FALSE), st.data)]
    ELSE IF BoolValid(raw)
    THEN [st EXCEPT !.data.builtin =
              validate_builtin(BoolValue(raw), st.data)]
    ELSE [st EXCEPT !.ok = FALSE]

\* the model when every field validated, else the error raised
Validated(st) == IF st.ok THEN st.data ELSE ValidationError

\* Argument(**arg_info): the fields are validated in declaration order
ArgumentInit(arg_info) ==
    Validated(
      BuiltinField(Get(arg_info, K_builtin),
        RequiredField(Get(arg_info, K_required),
          DescriptionField(Get(arg_info, K_description),
            NameField(Get(arg_info, K_name),
              TypeField(Get(arg_info, K_argument_type),
                MetaField(Get(arg_info, K_argument_meta), NoFields)))))))

-----------------------------------------------------------------------------
(* parse_page: one table row to the keyword arguments of Argument *)

S_parameter == <<"p","a","r","a","m","e","t","e","r">>

S_field == <<"f","i","e","l","d">>

\* {th.lower(): td for th, td in zip(theads, tds)}: a later column wins
ZipDict(heads, cells) ==
    LET n == IF Len(heads) < Len(cells) THEN Len(heads) ELSE Len(cells)
        keys == {Lower(heads[i]) : i \in 1..n}
        Last(k) == CHOOSE i \in 1..n :
                       /\ Lower(heads[i]) = k
                       /\ \A j \in (i + 1)..n : Lower(heads[j]) # k
    IN  [k \in keys |-> cells[Last(k)]]

\* d[new] = d[old]; del d[old]
Rename(d, old, new) ==
    [k \in (DOMAIN d \ {old}) \cup {new} |-> IF k = new THEN d[old] ELSE d[k]]

\* d[key] = value
Put(d, key, value) ==
    [k \in DOMAIN d \cup {key} |-> IF k = key THEN value ELSE d[k]]

\* lines 225-232: the parameter / field column becomes the name
RenameName(a) ==
    IF K_parameter \in DOMAIN a
    THEN Rename(Put(a, K_argument_meta, S_parameter), K_parameter, K_name)
    ELSE IF K_field \in DOMAIN a
    THEN Rename(Put(a, K_argument_meta, S_field), K_field, K_name)
    ELSE a

\* lines 234-236: the type column becomes argument_type
RenameType(a) ==
    IF K_type \in DOMAIN a THEN Rename(a, K_type, K_argument_type) ELSE a

\* lines 224-239; sorting the keys changes no value of the dict
row_to_arg_info(heads, cells) == RenameType(RenameName(ZipDict(heads, cells)))

-----------------------------------------------------------------------------
(* Specification of the construction of one Argument from one table row *)

\* a column that may be absent: the empty row, or one header with one cell
Column(headers, cells) ==
    {<<>>} \cup {<< <<h, c>> >> : h \in headers, c \in cells}

NameColumns ==
    Column({<<"P","a","r","a","m","e","t","e","r">>, <<"F","i","e","l","d">>, <<"n","a","m","e">>},
           {<<>>, <<"f","r","o","m">>, <<"F","r","o","m">>, <<"c","h","a","t","_","i","d">>})

TypeColumns ==
    Column({<<"T","y","p","e">>},
           {<<"I","n","t","e","g","e","r">>, <<"U","s","e","r">>, <<"A","r","r","a","y"," ","o","f"," ","U","s","e","r">>, <<"L","I","S","T">>, <<"M","e","s","s","a","g","e">>,
            <<"I","n","t","e","g","e","r"," ","o","r"," ","S","t","r","i","n","g">>, <<"T","r","u","e">>})

DescriptionColumns ==
    Column({<<"D","e","s","c","r","i","p","t","i","o","n">>},
           {<<"O","p","t","i","o","n","a","l","."," ","S","e","n","d","e","r">>, <<"O","P","T","I","O","N","A","L">>, <<"S","e","n","d","e","r">>, <<>>})

RequiredColumns ==
    Column({<<"R","e","q","u","i","r","e","d">>}, {<<"Y","e","s">>, <<"O","p","t","i","o","n","a","l">>, <<"N","o">>, <<"m","a","y","b","e">>})

BuiltinColumns == Column({<<"B","u","i","l","t","i","n">>}, {<<"y","e","s">>, <<"n","o">>})

InitArgument ==
    /\ pc = "call"
    /\ \E n \in NameColumns, ty \in TypeColumns, d \in DescriptionColumns,
          r \in RequiredColumns, b \in BuiltinColumns :
           LET cols == n \o ty \o r \o d \o b
           IN  /\ theads = [i \in 1..Len(cols) |-> cols[i][1]]
               /\ tds = [i \in 1..Len(cols) |-> cols[i][2]]
    /\ argument = None
    /\ IdleNormalizer /\ IdleSnake /\ IdlePage

\* argument = Argument(**arg_info) for the row's arg_info
ConstructArgument ==
    /\ pc = "call"
    /\ argument' = ArgumentInit(row_to_arg_info(theads, tds))
    /\ pc' = "done"
    /\ UNCHANGED <<type_description, converted_desc, string, file_name,
                   theads, tds, content, outcome>>

SpecArgument == InitArgument /\ [][ConstructArgument]_vars

-----------------------------------------------------------------------------
(* Claims about the construction of an Argument (SpecArgument) *)

\* the keyword arguments built from the row
RowInfo == row_to_arg_info(theads, tds)

RawName == Get(RowInfo, K_name)

RawDescription == Get(RowInfo, K_description)

RawRequired == Get(RowInfo, K_required)

Constructed == pc = "done" /\ argument # ValidationError

\* the description is present and begins with "optional" in any casing
OptionalDescription ==
    /\ RawDescription # PyNone
    /\ StartsWith(Lower(RawDescription.s), S_optional)

\* the required cell is present and is "optional" or "yes" in any casing
RequiredSignal ==
    /\ RawRequired # PyNone
    /\ Lower(RawRequired.s) \in {S_optional, S_yes}

\* C3: an Argument whose description begins with "optional" has
\* required == false, whatever the row's required cell holds.
C3_OptionalDescriptionWins ==
    Constructed /\ OptionalDescription => argument.required = Bool(FALSE)

\* C6 (as claimed): without a required cell an "Optional" description gives
\* required == false; with neither signal present required == true, with or
\* without a required column; required is always a boolean.
C6_DefaultRequiredRegardlessOfColumn ==
    Constructed =>
        /\ argument.required \in {Bool(TRUE), Bool(FALSE)}
        /\ RawRequired = PyNone /\ OptionalDescription
               => argument.required = Bool(FALSE)
        /\ ~OptionalDescription /\ ~RequiredSignal
               => argument.required = Bool(TRUE)

\* C6 (amended): without a required cell, required is false when the
\* description starts with "Optional" and true (the default policy) when it
\* does not; a required cell that is neither "optional" nor "yes" builds an
\* Argument only when it is another boolean word, whose value required
\* then takes ("No" gives false); required is always a boolean.
C6_DefaultRequiredWithoutCell ==
    Constructed =>
        /\ argument.required \in {Bool(TRUE), Bool(FALSE)}
        /\ RawRequired = PyNone /\ OptionalDescription
               => argument.required = Bool(FALSE)
        /\ RawRequired = PyNone /\ ~OptionalDescription
               => argument.required = Bool(TRUE)
        /\ RawRequired # PyNone /\ ~RequiredSignal
               => /\ Lower(RawRequired.s) \in BoolTrueWords \cup BoolFalseWords
                  /\ argument.required
                         = Bool(Lower(RawRequired.s) \in BoolTrueWords)

\* C6 witness: no required cell, description "Optional. Sender": required
\* is false
C6_MissingCellOptionalDescription ==
    /\ Constructed
    /\ RawRequired = PyNone
    /\ RawDescription = Str(<<"O","p","t","i","o","n","a","l","."," ","S","e","n","d","e","r">>)
    /\ argument.required = Bool(FALSE)

\* the normalized type holds "user" in any casing
TypeHasUser ==
    /\ Truthy(argument.argument_type)
    /\ Contains(Lower(argument.argument_type.s), S_user)

\* C7 (as claimed): a name equal to "from" in any casing becomes "from_user"
\* when the normalized type holds "user" and "from_" otherwise; any other
\* name is unchanged and an empty name becomes absent.
C7_FromBecomesLowercaseFromUser ==
    Constructed /\ RawName # PyNone =>
        IF RawName.s = <<>> THEN argument.name = PyNone
        ELSE IF Lower(RawName.s) = S_from
             THEN argument.name =
                      IF TypeHasUser THEN Str(<<"f","r","o","m","_","u","s","e","r">>) ELSE Str(<<"f","r","o","m","_">>)
             ELSE argument.name = RawName

\* C7 (amended): a name equal to "from" in any casing gets "_user" appended
\* when the normalized type holds "user" and "_" appended otherwise, its own
\* casing kept ("From" gives "From_user" or "From_"); any other name is
\* unchanged and an empty name becomes absent.
C7_FromGetsSuffixAppended ==
    Constructed /\ RawName # PyNone =>
        IF RawName.s = <<>> THEN argument.name = PyNone
        ELSE IF Lower(RawName.s) = S_from
             THEN argument.name =
                      IF TypeHasUser THEN Str(RawName.s \o <<"_","u","s","e","r">>)
                      ELSE Str(RawName.s \o <<"_">>)
             ELSE argument.name = RawName

\* C7 witness: name "From" with type "User": the name is "From_user"
C7_CapitalFromWithUserType ==
    /\ Constructed
    /\ RawName = Str(<<"F","r","o","m">>)
    /\ argument.argument_type = Str(<<"U","s","e","r">>)
    /\ argument.name = Str(<<"F","r","o","m","_","u","s","e","r">>)

\* C8: builtin is true exactly when the normalized type, lower-cased, is one
\* of the builtin names; no other cell of the row sets it.
C8_BuiltinIffTypeIsBuiltin ==
    Constructed =>
        (argument.builtin = Bool(TRUE)
            <=> /\ Truthy(argument.argument_type)
                /\ Lower(argument.argument_type.s) \in ARGUMENT_TYPE_BUILTINS)

-----------------------------------------------------------------------------
(* parse_page. The document is the sequence of sibling tags of the page     *)
(* body, in document order: a heading [name, text], a paragraph             *)
(* [name, text] or a table [name, thead, rows] whose thead is the list of   *)
(* its th texts and whose rows are the lists of td texts of its body rows.  *)

Returned(results) == [kind |-> "return", results |-> results]

Raised(exc) == [kind |-> "raise", exc |-> exc]

\* bs.find_all("h4"): the positions of the headings, in document order
RECURSIVE find_all_h4(_, _)
find_all_h4(doc, i) ==
    IF i > Len(doc) THEN <<>>
    ELSE IF doc[i].name = "h4" THEN <<i>> \o find_all_h4(doc, i + 1)
    ELSE find_all_h4(doc, i + 1)

\* tag.find_next_sibling() of the tag at position i, 0 for None
find_next_sibling(doc, i) == IF i + 1 <= Len(doc) THEN i + 1 ELSE 0

\* lines 205-211: whether the loop body goes on to the table of heading i
HasTable(doc, i) ==
    LET description == find_next_sibling(doc, i)
        table == IF description = 0 THEN 0
                 ELSE find_next_sibling(doc, description)
    IN  /\ description # 0 /\ doc[description].name = "p"
        /\ table # 0 /\ doc[table].name = "table"

RECURSIVE BuildArguments(_, _, _, _)

\* a row with a wrong cell count is skipped
OnMismatch_skip_row(heads, trows, r, arguments) ==
    BuildArguments(heads, trows, r + 1, arguments)

\* lines 219-222: raise ValueError("Header and data mismatch: ...")
OnMismatch(heads, trows, r, arguments) ==
    [ok |-> FALSE, exc |-> "ValueError"]

\* lines 241-242: argument = Argument(**arg_info); arguments.append(argument)
AppendArgument(heads, trows, r, arguments, a) ==
    IF a = ValidationError THEN [ok |-> FALSE, exc |-> "ValidationError"]
    ELSE BuildArguments(heads, trows, r + 1, Append(arguments, a))

\* lines 216-242: the loop over trows, from row r on
BuildArguments(heads, trows, r, arguments) ==
    IF r > Len(trows) THEN [ok |-> TRUE, arguments |-> arguments]
    ELSE IF Len(trows[r]) # Len(heads)
         THEN OnMismatch(heads, trows, r, arguments)
         ELSE AppendArgument(heads, trows, r, arguments,
                  ArgumentInit(row_to_arg_info(heads, trows[r])))

\* APIInfo(title=..., description=..., arguments=...)
APIInfo(title, description, arguments) ==
    [title |-> title, description |-> description, arguments |-> arguments]

\* lines 253-257: the diagnostics, then the return
LogAndReturn(titles, results) ==
    IF Len(titles) = 0 THEN Raised("ZeroDivisionError")
    ELSE Returned(results)

RECURSIVE TitleLoop(_, _, _, _)

\* "break" where the code has "continue"
SkipTitle_break(doc, titles, k, results) == LogAndReturn(titles, results)

\* lines 207 and 211: continue
SkipTitle(doc, titles, k, results) == TitleLoop(doc, titles, k + 1, results)

\* lines 244-251: the rows raised, or the APIInfo is appended to results
AppendResult(doc, titles, k, results, built) ==
    IF ~built.ok THEN Raised(built.exc)
    ELSE TitleLoop(doc, titles, k + 1,
             Append(results,
                    APIInfo(doc[titles[k]].text, doc[titles[k] + 1].text,
                            built.arguments)))

\* lines 203-251: the loop over titles, from the k-th heading on
TitleLoop(doc, titles, k, results) ==
    IF k > Len(titles) THEN LogAndReturn(titles, results)
    ELSE IF ~HasTable(doc, titles[k])
         THEN SkipTitle(doc, titles, k, results)
         ELSE AppendResult(doc, titles, k, results,
                  BuildArguments(doc[titles[k] + 2].thead,
                                 doc[titles[k] + 2].rows, 1, <<>>))

parse_page(doc) == TitleLoop(doc, find_all_h4(doc, 1), 1, <<>>)

-----------------------------------------------------------------------------
(* Specification of parse_page *)

MaxNodes == 6

H4(text) == [name |-> "h4", text |-> text]

P(text) == [name |-> "p", text |-> text]

Table(thead, rows) == [name |-> "table", thead |-> thead, rows |-> rows]

PageHeads == <<<<"F","i","e","l","d">>, <<"R","e","q","u","i","r","e","d">>>>

RowGood == <<<<"f","r","o","m">>, <<"Y","e","s">>>>

\* one cell for two header columns
RowShort == <<<<"f","r","o","m">>>>

\* a required cell the bool validation rejects
RowInvalid == <<<<"f","r","o","m">>, <<"m","a","y","b","e">>>>

Nodes ==
    {H4(<<"a">>), H4(<<"b">>), P(<<"d">>),
     Table(PageHeads, <<RowGood>>),
     Table(PageHeads, <<RowGood, RowShort>>),
     Table(PageHeads, <<RowInvalid>>)}

InitPage ==
    /\ pc = "call"
    /\ content \in SeqsUpTo(Nodes, MaxNodes)
    /\ outcome = None
    /\ IdleNormalizer /\ IdleSnake /\ IdleArgument

\* results = parse_page(content)
ParsePage ==
    /\ pc = "call"
    /\ outcome' = parse_page(content)
    /\ pc' = "done"
    /\ UNCHANGED <<type_description, converted_desc, string, file_name,
                   theads, tds, argument, content>>

SpecPage == InitPage /\ [][ParsePage]_vars

-----------------------------------------------------------------------------
(* Claims about parse_page (SpecPage) *)

\* the headings followed by a paragraph that is followed by a table
Triples(doc) ==
    {i \in 1..Len(doc) :
        /\ doc[i].name = "h4"
        /\ i + 2 <= Len(doc)
        /\ doc[i + 1].name = "p"
        /\ doc[i + 2].name = "table"}

\* the k-th such heading in document order
NthTriple(doc, k) ==
    CHOOSE i \in Triples(doc) :
        Cardinality({j \in Triples(doc) : j <= i}) = k

\* the Entity of the heading at position i
EntityAt(doc, i) ==
    LET table == doc[i + 2]
    IN  [title |-> doc[i].text,
         description |-> doc[i + 1].text,
         arguments |->
             [r \in 1..Len(table.rows) |->
                 ArgumentInit(row_to_arg_info(table.thead, table.rows[r]))]]

\* some body row of the table has another number of cells than the header
HasMismatch(table) ==
    \E r \in 1..Len(table.rows) : Len(table.rows[r]) # Len(table.thead)

\* some body row of the table fails the validation of Argument
HasInvalidRow(table) ==
    \E r \in 1..Len(table.rows) :
        ArgumentInit(row_to_arg_info(table.thead, table.rows[r]))
            = ValidationError

\* no extracted table has a row that aborts the run
CleanTables(doc) ==
    \A i \in Triples(doc) :
        ~HasMismatch(doc[i + 2]) /\ ~HasInvalidRow(doc[i + 2])

\* some heading lacks the paragraph or the table
SomeHeadingSkipped(doc) ==
    \E i \in 1..Len(doc) : doc[i].name = "h4" /\ i \notin Triples(doc)

\* C1: whenever parse_page returns, the list holds exactly one Entity per
\* heading followed by a paragraph and a table, in document order, neither
\* sorted nor deduplicated; a heading lacking the paragraph or the table
\* adds no Entity and does not abort the run.
C1_OneEntityPerTripleInOrder ==
    pc = "done" =>
        /\ outcome.kind = "return" =>
             /\ Len(outcome.results) = Cardinality(Triples(content))
             /\ \A k \in 1..Len(outcome.results) :
                    outcome.results[k]
                        = EntityAt(content, NthTriple(content, k))
        /\ SomeHeadingSkipped(content) /\ CleanTables(content)
               => outcome.kind = "return"

\* C1 witness: two headings with the same title, each with its paragraph and
\* table, give two Entities
C1_DuplicateTitlesBothKept ==
    /\ pc = "done"
    /\ outcome.kind = "return"
    /\ Len(outcome.results) = 2
    /\ outcome.results[1].title = outcome.results[2].title

\* C2: a body row of an extracted table with another number of cells than
\* the header makes parse_page raise: nothing is returned, not even the
\* Entities of earlier headings, and the row is not skipped.
C2_MismatchAbortsWholeExtraction ==
    pc = "done" /\ (\E i \in Triples(content) : HasMismatch(content[i + 2]))
        => outcome.kind = "raise" /\ "results" \notin DOMAIN outcome

\* C2 witness: a first heading with a good table, then a heading whose table has the
\* short row: ValueError, and the first Entity is not returned
C2_MismatchAfterGoodEntity ==
    /\ pc = "done"
    /\ Len(content) = 6
    /\ Triples(content) = {1, 4}
    /\ ~HasMismatch(content[3])
    /\ ~HasInvalidRow(content[3])
    /\ HasMismatch(content[6])
    /\ outcome = Raised("ValueError")

\* C9: the diagnostics never abort the run: a document whose extracted
\* tables have no row that aborts (no cell-count mismatch, and no row Argument
\* rejects) makes parse_page return its list, also when the document has no
\* heading at all or no heading with a paragraph and a table.
C9_DiagnosticsNeverAbort ==
    pc = "done" /\ CleanTables(content) => outcome.kind = "return"

====
